---- MODULE Spec2Model ----
(***************************************************************************)
(* Model of the A8Mini device session (src/lib.rs): two connected UDP      *)
(* sockets, the fire-and-forget and awaiting exchanges built on them, and  *)
(* the attitude-telemetry convenience call.  The device, the network and   *)
(* the tokio timer are the environment.                                    *)
(***************************************************************************)
EXTENDS Integers, Sequences, FiniteSets, TLC

(* ---------------- bounds of the model ---------------- *)
MaxCalls == 2

(* ---------------- program constants ---------------- *)
\* constants.rs: size of the command receive buffer, wait in timer ticks
RECV_BUFF_SIZE == 64
RECV_TIMEOUT == 2
\* lib.rs:84, let mut recv_buffer = [0; 256]
HTTP_BUFF_SIZE == 256
\* control.rs: A8MiniAtittude, six 16-bit fields
ATTITUDE_SIZE == 12
\* frame layout: lib.rs:36 reads DATA_LEN at [3] and CMD_ID at [7]
HEADER_LEN == 8
CRC_LEN == 2

\* the two callers that share one session (&self)
Tasks == {"A", "B"}
Channels == {"command", "http"}

(* ---------------- bytes ---------------- *)
RECURSIVE Pow2(_)
Pow2(n) == IF n = 0 THEN 1 ELSE 2 * Pow2(n - 1)

Bit(x, k) == (x \div Pow2(k)) % 2

FlipBit(x, k) == IF Bit(x, k) = 1 THEN x - Pow2(k) ELSE x + Pow2(k)

RECURSIVE XorBits(_, _, _)
XorBits(a, b, k) ==
    IF k = 0 THEN 0
    ELSE (((a % 2) + (b % 2)) % 2) + 2 * XorBits(a \div 2, b \div 2, k - 1)

\* little-endian two's complement 16-bit encoding of a signed integer
LE16(v) == LET u == (v + 65536) % 65536 IN <<u % 256, u \div 256>>

\* little-endian i16 read, as bincode reads a fixed-width i16
I16(lo, hi) == LET u == lo + 256 * hi IN IF u >= 32768 THEN u - 65536 ELSE u

Take(s, n) == IF Len(s) <= n THEN s ELSE SubSeq(s, 1, n)

Zeros(n) == [i \in 1..n |-> 0]

(* ---------------- checksum.rs ---------------- *)
RECURSIVE CrcShift(_, _)
CrcShift(crc, n) ==
    IF n = 0 THEN crc
    ELSE LET sh == (crc * 2) % 65536
         IN CrcShift(IF Bit(crc, 15) = 1
                     THEN FlipBit(FlipBit(FlipBit(sh, 0), 5), 12)
                     ELSE sh, n - 1)

\* table-driven CRC-16, polynomial 0x1021, initial value 0
CrcTable == [i \in 0..255 |-> CrcShift(i * 256, 8)]

CrcByte(crc, byte) ==
    XorBits((crc % 256) * 256, CrcTable[XorBits(crc \div 256, byte, 8)], 16)

RECURSIVE CrcUpTo(_, _)
CrcUpTo(bytes, n) ==
    IF n = 0 THEN 0
    ELSE LET prev == CrcUpTo(bytes, n - 1)
         IN IF prev >= 0 THEN CrcByte(prev, bytes[n]) ELSE 0

checksum(bytes) == CrcUpTo(bytes, Len(bytes))

(* ---------------- frame codec (control.rs) ---------------- *)
\* Command::to_bytes: sync marker, control byte, DATA_LEN, SEQ, CMD_ID, data, crc
encode(cmd_id, data) ==
    LET body == <<85, 102, 1>> \o LE16(Len(data)) \o <<0, 0>> \o <<cmd_id>> \o data
    IN body \o LE16(checksum(body))

\* a reply is a valid frame: sync marker, length field, checksum
ValidFrame(bytes) ==
    /\ Len(bytes) >= HEADER_LEN + CRC_LEN
    /\ bytes[1] = 85 /\ bytes[2] = 102
    /\ bytes[4] + 256 * bytes[5] = Len(bytes) - HEADER_LEN - CRC_LEN
    /\ LET n == Len(bytes)
       IN bytes[n - 1] + 256 * bytes[n] = checksum(SubSeq(bytes, 1, n - 2))

FramePayload(bytes) == SubSeq(bytes, HEADER_LEN + 1, Len(bytes) - CRC_LEN)

(* ---------------- command and query catalogue (control.rs) ---------------- *)
AttitudeInformation == [cmd_id |-> 13, data |-> <<>>]
AutoCenter == [cmd_id |-> 8, data |-> <<1>>]
SetYawPitchAngle(yaw, pitch) == [cmd_id |-> 14, data |-> LE16(yaw) \o LE16(pitch)]

\* the closed set of command variants, and the frame of each
CommandCatalogue == {AttitudeInformation, AutoCenter, SetYawPitchAngle(900, -900)}
FrameTable == [c \in CommandCatalogue |-> encode(c.cmd_id, c.data)]

\* Command::to_bytes
to_bytes(command) == FrameTable[command]

\* the HTTPQuery variants
GetMediaCountQuery == [query |-> "GetMediaCount"]
GetDirectoriesQuery == [query |-> "GetDirectories"]

Commands == {AutoCenter, SetYawPitchAngle(900, -900)}
Queries == {GetMediaCountQuery, GetDirectoriesQuery}

\* the literal request text of each variant, as bytes ("/count", "/dirs")
QueryText ==
    [q \in Queries |->
        IF q = GetMediaCountQuery THEN <<47, 99, 111, 117, 110, 116>>
                                  ELSE <<47, 100, 105, 114, 115>>]

\* HTTPQuery::to_string followed by as_bytes
to_string(query) == QueryText[query]

(* ---------------- decoding (bincode::deserialize, String::from_utf8) ---------------- *)
\* lib.rs:66, fixed-width little-endian fields read from the start of the
\* slice, trailing bytes allowed
deserialize(bytes) ==
    IF Len(bytes) < ATTITUDE_SIZE
    THEN [ok |-> FALSE, value |-> <<>>]
    ELSE [ok |-> TRUE,
          value |-> [yaw     |-> I16(bytes[1], bytes[2]),
                     pitch   |-> I16(bytes[3], bytes[4]),
                     roll    |-> I16(bytes[5], bytes[6]),
                     v_yaw   |-> I16(bytes[7], bytes[8]),
                     v_pitch |-> I16(bytes[9], bytes[10]),
                     v_roll  |-> I16(bytes[11], bytes[12])]]

IsCont(b) == b \in 128..191

\* length of the UTF-8 sequence a byte starts, 0 if it cannot start one
SeqLen(b) ==
    IF b < 128 THEN 1
    ELSE IF b \in 194..223 THEN 2
    ELSE IF b \in 224..239 THEN 3
    ELSE IF b \in 240..244 THEN 4
    ELSE 0

SecondOk(lead, b) ==
    CASE lead = 224 -> b \in 160..191
      [] lead = 237 -> b \in 128..159
      [] lead = 240 -> b \in 144..191
      [] lead = 244 -> b \in 128..143
      [] OTHER -> IsCont(b)

Utf8Valid(s) ==
    \A i \in 1..Len(s) :
        IF IsCont(s[i])
        THEN \E k \in 1..3 :
                /\ i - k >= 1
                /\ SeqLen(s[i - k]) > k
                /\ \A j \in (i - k + 1)..(i - 1) : IsCont(s[j])
                /\ (k = 1 => SecondOk(s[i - 1], s[i]))
        ELSE /\ SeqLen(s[i]) >= 1
             /\ i + SeqLen(s[i]) - 1 <= Len(s)
             /\ \A j \in (i + 1)..(i + SeqLen(s[i]) - 1) : IsCont(s[j])

\* lib.rs:96, String::from_utf8 of the byte vector
from_utf8(bytes) == [ok |-> Utf8Valid(bytes), value |-> bytes]

(* ---------------- datagrams the device can answer with ---------------- *)
AttitudeData == LE16(125) \o LE16(-300) \o LE16(0) \o LE16(10) \o LE16(-10) \o LE16(0)
AttitudeAck == encode(13, AttitudeData)
ShortAttitudeAck == encode(13, SubSeq(AttitudeData, 1, ATTITUDE_SIZE - 1))
BadCrcReply == [AttitudeAck EXCEPT ![Len(AttitudeAck)] = (@ + 1) % 256]
EmptyDatagram == <<>>

TextReply == <<111, 107, 195, 169>>
BadTextReply == <<111, 255, 107>>
\* valid text one byte longer than the query buffer, its last character
\* (two bytes) lying across the buffer's end
LongTextReply == [i \in 1..(HTTP_BUFF_SIZE - 1) |-> 97] \o <<195, 169>>

DeviceReplies(c) ==
    IF c = "command"
    THEN {AttitudeAck, ShortAttitudeAck, BadCrcReply, EmptyDatagram}
    ELSE {TextReply, BadTextReply, LongTextReply, EmptyDatagram}

(* ---------------- state ---------------- *)
VARIABLES
    session,     \* the A8Mini struct: command_socket and http_socket
    pc,          \* per caller: "idle", "wait" (suspended in recv), "done"
    call,        \* per caller: the operation being executed, its argument, its
                 \* request id, and whether the channel was quiet when it transmitted
    elapsed,     \* per caller: timer ticks since the bounded wait started
    result,      \* per caller: the Result the operation returned
    log,         \* per caller: socket operations performed by the current call
    wire,        \* per channel: ids of the requests the device has not yet answered
    rxq,         \* per channel: datagrams queued in the socket's receive buffer
    sockErr,     \* per channel: a transport error is pending on the socket
    calls,       \* number of operations started so far
    overlapped   \* some exchange was started on a channel while another
                 \* exchange on that channel was still running

vars == <<session, pc, call, elapsed, result, log, wire, rxq, sockErr, calls, overlapped>>

BlindOps == {"send_command_blind", "send_http_query_blind"}
AwaitOps == {"send_command", "get_attitude_information", "send_http_query"}
CommandOps == {"send_command_blind", "send_command", "get_attitude_information"}
HttpOps == {"send_http_query_blind", "send_http_query"}

\* the channel an operation is an exchange on
ChannelOf(o) == IF o \in CommandOps THEN "command" ELSE "http"

SendSocketAlwaysCommand(o) == "command"

\* lib.rs:38 and lib.rs:73, the socket an operation transmits on
SendSocket(o) == IF o \in CommandOps THEN "command" ELSE "http"

RecvSocketAlwaysCommand(o) == "command"

RecvSocketAlwaysHttp(o) == "http"

\* lib.rs:54 and lib.rs:88, the socket an awaiting operation receives on
RecvSocket(o) == IF o \in CommandOps THEN "command" ELSE "http"

\* lib.rs:50 and lib.rs:84, the receive buffer of an awaiting operation
BufferSize(o) == IF o \in CommandOps THEN RECV_BUFF_SIZE ELSE HTTP_BUFF_SIZE

NoCall == [op |-> "none", arg |-> <<>>, id |-> 0, quiet |-> FALSE]
NoResult == [status |-> "none", err |-> "none", value |-> <<>>]
NoLog == [sends |-> <<>>, recvs |-> <<>>]

Ok(v) == [status |-> "Ok", err |-> "none", value |-> v]
Err(e) == [status |-> "Err", err |-> e, value |-> <<>>]

\* connect_to, lib.rs:23-32 with the arguments of connect, lib.rs:20
Connected ==
    [command_socket |-> [local |-> "8080", remote |-> "CAMERA_COMMAND_PORT", open |-> TRUE],
     http_socket    |-> [local |-> "8088", remote |-> "CAMERA_HTTP_PORT", open |-> TRUE]]

Init ==
    /\ session = Connected
    /\ pc = [t \in Tasks |-> "idle"]
    /\ call = [t \in Tasks |-> NoCall]
    /\ elapsed = [t \in Tasks |-> 0]
    /\ result = [t \in Tasks |-> NoResult]
    /\ log = [t \in Tasks |-> NoLog]
    /\ wire = [c \in Channels |-> <<>>]
    /\ rxq = [c \in Channels |-> <<>>]
    /\ sockErr = [c \in Channels |-> FALSE]
    /\ calls = 0
    /\ overlapped = FALSE

\* caller t starts operation o while another caller's exchange on the same
\* channel has not returned yet
Overlaps(t, o) ==
    \E u \in Tasks \ {t} : pc[u] # "idle" /\ ChannelOf(call[u].op) = ChannelOf(o)

(* ---------------- the operations ---------------- *)
BlindResultIgnoresZero(report) ==
    IF report = "error" THEN [status |-> "Err", err |-> "TransportError", value |-> <<>>]
    ELSE [status |-> "Ok", err |-> "none", value |-> <<>>]

\* the outcome of the transmit, lib.rs:38-45 and lib.rs:73-79:
\* report is the transport's answer to send
BlindResult(report) ==
    IF report = "error" THEN Err("TransportError")
    ELSE IF report = "zero" THEN Err("TransmitFailed")
    ELSE Ok(<<>>)

\* the awaiting operations go on to the receive whatever the transmit gave
TransmitIgnoresFailure(t, o, arg, bytes, report) ==
    LET sock == SendSocket(o)
        r == BlindResult(report)
        id == calls + 1
    IN /\ pc[t] = "idle"
       /\ calls < MaxCalls
       /\ calls' = id
       /\ overlapped' = (overlapped \/ Overlaps(t, o))
       /\ call' = [call EXCEPT ![t] =
                     [op |-> o, arg |-> arg, id |-> id,
                      quiet |-> rxq[sock] = <<>> /\ wire[sock] = <<>> /\ ~sockErr[sock]]]
       /\ log' = [log EXCEPT ![t] =
                    [sends |-> <<[sock |-> sock, bytes |-> bytes, report |-> report]>>,
                     recvs |-> <<>>]]
       /\ wire' = IF report = "sent"
                  THEN [wire EXCEPT ![sock] = Append(@, id)]
                  ELSE wire
       /\ elapsed' = [elapsed EXCEPT ![t] = 0]
       /\ IF o \in AwaitOps
          THEN /\ pc' = [pc EXCEPT ![t] = "wait"]
               /\ result' = [result EXCEPT ![t] = NoResult]
          ELSE /\ pc' = [pc EXCEPT ![t] = "done"]
               /\ result' = [result EXCEPT ![t] = r]
       /\ UNCHANGED <<session, rxq, sockErr>>

\* send_command_blind / send_http_query_blind, and the first line of the
\* awaiting operations (lib.rs:49, lib.rs:83)
Transmit(t, o, arg, bytes, report) ==
    LET sock == SendSocket(o)
        r == BlindResult(report)
        id == calls + 1
    IN /\ pc[t] = "idle"
       /\ calls < MaxCalls
       /\ calls' = id
       /\ overlapped' = (overlapped \/ Overlaps(t, o))
       /\ call' = [call EXCEPT ![t] =
                     [op |-> o, arg |-> arg, id |-> id,
                      quiet |-> rxq[sock] = <<>> /\ wire[sock] = <<>> /\ ~sockErr[sock]]]
       /\ log' = [log EXCEPT ![t] =
                    [sends |-> <<[sock |-> sock, bytes |-> bytes, report |-> report]>>,
                     recvs |-> <<>>]]
       /\ wire' = IF report = "sent"
                  THEN [wire EXCEPT ![sock] = Append(@, id)]
                  ELSE wire
       /\ elapsed' = [elapsed EXCEPT ![t] = 0]
       /\ IF r.status = "Ok" /\ o \in AwaitOps
          THEN /\ pc' = [pc EXCEPT ![t] = "wait"]
               /\ result' = [result EXCEPT ![t] = NoResult]
          ELSE /\ pc' = [pc EXCEPT ![t] = "done"]
               /\ result' = [result EXCEPT ![t] = r]
       /\ UNCHANGED <<session, rxq, sockErr>>

SendReports == {"sent", "zero", "error"}

send_command_blind(t) ==
    \E command \in Commands, report \in SendReports :
        Transmit(t, "send_command_blind", command, to_bytes(command), report)

send_command(t) ==
    \E command \in Commands, report \in SendReports :
        Transmit(t, "send_command", command, to_bytes(command), report)

get_attitude_information(t) ==
    \E report \in SendReports :
        Transmit(t, "get_attitude_information", AttitudeInformation,
                 to_bytes(AttitudeInformation), report)

send_http_query_blind_framed(t) ==
    \E query \in Queries, report \in SendReports :
        Transmit(t, "send_http_query_blind", query,
                 encode(0, to_string(query)), report)

send_http_query_blind(t) ==
    \E query \in Queries, report \in SendReports :
        Transmit(t, "send_http_query_blind", query, to_string(query), report)

send_http_query(t) ==
    \E query \in Queries, report \in SendReports :
        Transmit(t, "send_http_query", query, to_string(query), report)

\* socket.recv(&mut recv_buffer): the datagram is copied into the zeroed
\* buffer, cut to the buffer's size
FillBuffer(bytes, size) ==
    LET n == IF Len(bytes) <= size THEN Len(bytes) ELSE size
    IN [recv_len |-> n, buffer |-> Take(bytes, size) \o Zeros(size - n)]

ReceivedNoEmptyCheck(o, bytes) ==
    LET r == FillBuffer(bytes, BufferSize(o))
    IN IF o = "send_command" THEN Ok(r.buffer)
       ELSE IF o = "get_attitude_information"
            THEN LET d == deserialize(r.buffer)
                 IN IF d.ok THEN Ok(d.value) ELSE Err("DecodeError")
       ELSE LET s == from_utf8(r.buffer)
            IN IF s.ok THEN Ok(s.value) ELSE Err("TextDecodeError")

\* get_attitude_information decodes the buffer even when send_command failed
ReceivedDecodesOnFailure(o, bytes) ==
    LET r == FillBuffer(bytes, BufferSize(o))
    IN IF o = "get_attitude_information"
       THEN LET d == deserialize(r.buffer)
            IN IF d.ok THEN Ok(d.value) ELSE Err("DecodeError")
       ELSE IF r.recv_len = 0 THEN Err("EmptyResponse")
       ELSE IF o = "send_command" THEN Ok(r.buffer)
       ELSE LET s == from_utf8(r.buffer)
            IN IF s.ok THEN Ok(s.value) ELSE Err("TextDecodeError")

\* what an awaiting operation returns for a received datagram:
\* lib.rs:55-61, lib.rs:65-67, lib.rs:89-96
Received(o, bytes) ==
    LET r == FillBuffer(bytes, BufferSize(o))
    IN IF r.recv_len = 0 THEN Err("EmptyResponse")
       ELSE IF o = "send_command" THEN Ok(r.buffer)
       ELSE IF o = "get_attitude_information"
            THEN LET d == deserialize(r.buffer)
                 IN IF d.ok THEN Ok(d.value) ELSE Err("DecodeError")
       ELSE LET s == from_utf8(r.buffer)
            IN IF s.ok THEN Ok(s.value) ELSE Err("TextDecodeError")

Finish(t, r, event) ==
    /\ pc' = [pc EXCEPT ![t] = "done"]
    /\ result' = [result EXCEPT ![t] = r]
    /\ log' = [log EXCEPT ![t].recvs = Append(@, event)]

\* the recv future completes with a datagram, lib.rs:54 and lib.rs:88
Recv(t) ==
    LET sock == RecvSocket(call[t].op)
    IN /\ pc[t] = "wait"
       /\ ~sockErr[sock]
       /\ rxq[sock] # <<>>
       /\ rxq' = [rxq EXCEPT ![sock] = Tail(@)]
       /\ Finish(t, Received(call[t].op, Head(rxq[sock]).bytes),
                 [sock |-> sock, kind |-> "datagram", dgram |-> Head(rxq[sock])])
       /\ elapsed' = [elapsed EXCEPT ![t] = 0]
       /\ UNCHANGED <<session, call, wire, sockErr, calls, overlapped>>

NoDatagram == [bytes |-> <<>>, req |-> 0, chan |-> "none"]

\* the recv future completes with an io::Error, the second `?`
RecvError(t) ==
    LET sock == RecvSocket(call[t].op)
    IN /\ pc[t] = "wait"
       /\ sockErr[sock]
       /\ sockErr' = [sockErr EXCEPT ![sock] = FALSE]
       /\ Finish(t, Err("TransportError"),
                 [sock |-> sock, kind |-> "error", dgram |-> NoDatagram])
       /\ elapsed' = [elapsed EXCEPT ![t] = 0]
       /\ UNCHANGED <<session, call, wire, rxq, calls, overlapped>>

DeadlineAlwaysReached(t) == TRUE

\* the deadline of timeout(RECV_TIMEOUT, ..) is reached: the first `?`
DeadlineReached(t) == elapsed[t] >= RECV_TIMEOUT

\* on the deadline the request is transmitted again and the wait restarts
TimeoutRetries(t) ==
    LET sock == RecvSocket(call[t].op)
    IN /\ pc[t] = "wait"
       /\ DeadlineReached(t)
       /\ rxq[sock] = <<>>
       /\ ~sockErr[sock]
       /\ Len(log[t].sends) < 2
       /\ log' = [log EXCEPT ![t].sends = Append(@, @[1])]
       /\ wire' = [wire EXCEPT ![sock] = Append(@, call[t].id)]
       /\ elapsed' = [elapsed EXCEPT ![t] = 0]
       /\ UNCHANGED <<session, pc, call, result, rxq, sockErr, calls, overlapped>>

\* on the deadline the socket is dropped
TimeoutClosesSocket(t) ==
    LET sock == RecvSocket(call[t].op)
    IN /\ pc[t] = "wait"
       /\ DeadlineReached(t)
       /\ rxq[sock] = <<>>
       /\ ~sockErr[sock]
       /\ session' = IF sock = "command"
                     THEN [session EXCEPT !.command_socket.open = FALSE]
                     ELSE [session EXCEPT !.http_socket.open = FALSE]
       /\ Finish(t, Err("NoResponse"),
                 [sock |-> sock, kind |-> "elapsed", dgram |-> NoDatagram])
       /\ UNCHANGED <<call, elapsed, wire, rxq, sockErr, calls, overlapped>>

Timeout(t) ==
    LET sock == RecvSocket(call[t].op)
    IN /\ pc[t] = "wait"
       /\ DeadlineReached(t)
       /\ rxq[sock] = <<>>
       /\ ~sockErr[sock]
       /\ Finish(t, Err("NoResponse"),
                 [sock |-> sock, kind |-> "elapsed", dgram |-> NoDatagram])
       /\ UNCHANGED <<session, call, elapsed, wire, rxq, sockErr, calls, overlapped>>

\* the caller takes the Result
Return(t) ==
    /\ pc[t] = "done"
    /\ pc' = [pc EXCEPT ![t] = "idle"]
    /\ call' = [call EXCEPT ![t] = NoCall]
    /\ result' = [result EXCEPT ![t] = NoResult]
    /\ log' = [log EXCEPT ![t] = NoLog]
    /\ elapsed' = [elapsed EXCEPT ![t] = 0]
    /\ UNCHANGED <<session, wire, rxq, sockErr, calls, overlapped>>

(* ---------------- environment: timer, device, network ---------------- *)
Tick(t) ==
    /\ pc[t] = "wait"
    /\ elapsed[t] < RECV_TIMEOUT
    /\ elapsed' = [elapsed EXCEPT ![t] = @ + 1]
    /\ UNCHANGED <<session, pc, call, result, log, wire, rxq, sockErr, calls, overlapped>>

\* the device answers the oldest request it holds
DeviceReply(c) ==
    /\ wire[c] # <<>>
    /\ \E bytes \in DeviceReplies(c) :
          rxq' = [rxq EXCEPT ![c] =
                    Append(@, [bytes |-> bytes, req |-> Head(wire[c]), chan |-> c])]
    /\ wire' = [wire EXCEPT ![c] = Tail(@)]
    /\ UNCHANGED <<session, pc, call, elapsed, result, log, sockErr, calls, overlapped>>

\* the request or its answer is lost, or the device does not answer it
DeviceSilent(c) ==
    /\ wire[c] # <<>>
    /\ wire' = [wire EXCEPT ![c] = Tail(@)]
    /\ UNCHANGED <<session, pc, call, elapsed, result, log, rxq, sockErr, calls, overlapped>>

\* the request is refused (port unreachable): the socket holds an error
DeviceUnreachable(c) ==
    /\ wire[c] # <<>>
    /\ wire' = [wire EXCEPT ![c] = Tail(@)]
    /\ sockErr' = [sockErr EXCEPT ![c] = TRUE]
    /\ UNCHANGED <<session, pc, call, elapsed, result, log, rxq, calls, overlapped>>

Next ==
    \/ \E t \in Tasks : send_command_blind(t)
    \/ \E t \in Tasks : send_command(t)
    \/ \E t \in Tasks : get_attitude_information(t)
    \/ \E t \in Tasks : send_http_query_blind(t)
    \/ \E t \in Tasks : send_http_query(t)
    \/ \E t \in Tasks : Recv(t)
    \/ \E t \in Tasks : RecvError(t)
    \/ \E t \in Tasks : Timeout(t)
    \/ \E t \in Tasks : Return(t)
    \/ \E t \in Tasks : Tick(t)
    \/ \E c \in Channels : DeviceReply(c)
    \/ \E c \in Channels : DeviceSilent(c)
    \/ \E c \in Channels : DeviceUnreachable(c)

Spec == Init /\ [][Next]_vars

\* the timer advances and the runtime polls a future whose deadline passed
Fairness ==
    \A t \in Tasks :
        /\ WF_vars(Tick(t))
        /\ WF_vars(Timeout(t))

LiveSpec == Init /\ [][Next]_vars /\ Fairness

(* ---------------- vocabulary of the properties ---------------- *)
Done(t) == pc[t] = "done"
Awaiting(t) == call[t].op \in AwaitOps
Blind(t) == call[t].op \in BlindOps
SendReport(t) == log[t].sends[1].report
\* the call received a datagram
Got(t) == log[t].recvs # <<>> /\ log[t].recvs[1].kind = "datagram"
Datagram(t) == log[t].recvs[1].dgram
InFlight(c) == {t \in Tasks : pc[t] = "wait" /\ RecvSocket(call[t].op) = c}
PayloadLen(bytes) ==
    IF Len(bytes) >= HEADER_LEN + CRC_LEN THEN Len(bytes) - HEADER_LEN - CRC_LEN ELSE 0

(* ---------------- C1 ---------------- *)
\* C1: send_command (and get_attitude_information through it) succeeds only
\* on a reply that is a valid frame; a non-empty reply that is not a valid
\* frame makes the call fail with InvalidFrame.
C1_OnlyValidFrames ==
    \A t \in Tasks :
        (Done(t) /\ call[t].op \in {"send_command", "get_attitude_information"}
                 /\ Got(t) /\ Datagram(t).bytes # <<>>)
        => /\ result[t].status = "Ok" => ValidFrame(Datagram(t).bytes)
           /\ ~ValidFrame(Datagram(t).bytes) => result[t] = Err("InvalidFrame")

(* ---------------- C2 ---------------- *)
\* C2, safety half: NoResponse is reported only once the deadline has been
\* reached and nothing was received, and an awaiting call never succeeds
\* without having received a datagram.
C2_NoEarlyTimeout ==
    \A t \in Tasks :
        /\ (Done(t) /\ result[t].err = "NoResponse")
           => /\ elapsed[t] >= RECV_TIMEOUT
              /\ Awaiting(t)
              /\ SendReport(t) = "sent"
              /\ ~Got(t)
        /\ (Done(t) /\ Awaiting(t) /\ result[t].status = "Ok") => Got(t)

C3_BlindTransmitFailed ==
    \A t \in Tasks :
        Blind(t) =>
            /\ pc[t] # "wait"
            /\ Done(t) =>
                  /\ result[t].status = "Ok" <=> SendReport(t) = "sent"
                  /\ SendReport(t) # "sent" => result[t] = Err("TransmitFailed")
                  /\ log[t].recvs = <<>>

\* C3 amended: zero bytes give TransmitFailed, a transport error is
\* returned as that transport error.
C3_BlindOutcome ==
    \A t \in Tasks :
        Blind(t) =>
            /\ pc[t] # "wait"
            /\ Done(t) =>
                  /\ result[t].status = "Ok" <=> SendReport(t) = "sent"
                  /\ SendReport(t) = "zero" => result[t] = Err("TransmitFailed")
                  /\ SendReport(t) = "error" => result[t] = Err("TransportError")
                  /\ log[t].recvs = <<>>

C3_Witness ==
    \E t, u \in Tasks :
        /\ Done(t) /\ call[t].op = "send_command_blind"
        /\ SendReport(t) = "zero" /\ result[t] = Err("TransmitFailed")
        /\ Done(u) /\ call[u].op = "send_http_query_blind"
        /\ SendReport(u) = "sent" /\ result[u].status = "Ok"

(* ---------------- C4 ---------------- *)
\* C4: an awaiting call that receives a datagram of length zero fails with
\* EmptyResponse; a successful awaiting call received a non-empty datagram.
C4_EmptyResponse ==
    \A t \in Tasks :
        (Done(t) /\ Awaiting(t) /\ Got(t)) =>
            /\ Datagram(t).bytes = <<>> => result[t] = Err("EmptyResponse")
            /\ result[t].status = "Ok" => Datagram(t).bytes # <<>>

C4_Witness ==
    \E t, u \in Tasks :
        /\ Done(t) /\ call[t].op = "send_command" /\ Got(t)
        /\ Datagram(t).bytes = <<>> /\ result[t] = Err("EmptyResponse")
        /\ Done(u) /\ call[u].op = "send_http_query" /\ Got(u)
        /\ Datagram(u).bytes = <<>> /\ result[u] = Err("EmptyResponse")

(* ---------------- C5 ---------------- *)
\* C5: get_attitude_information returns telemetry only for a reply whose
\* payload has exactly the telemetry width, and then the fields are those of
\* the payload; a reply with a shorter payload fails with DecodeError.
C5_ExactWidthOnly ==
    \A t \in Tasks :
        (Done(t) /\ call[t].op = "get_attitude_information" /\ Got(t)
                 /\ Datagram(t).bytes # <<>>)
        => /\ result[t].status = "Ok"
              => /\ PayloadLen(Datagram(t).bytes) = ATTITUDE_SIZE
                 /\ result[t].value = deserialize(FramePayload(Datagram(t).bytes)).value
           /\ PayloadLen(Datagram(t).bytes) < ATTITUDE_SIZE
              => result[t] = Err("DecodeError")

(* ---------------- C6 ---------------- *)
\* C6 as claimed: on each channel at most one exchange is in flight, and no
\* call transmits on a channel on which an earlier call is still waiting.
C6_OneInFlight ==
    /\ \A c \in Channels : Cardinality(InFlight(c)) <= 1
    /\ \A t, u \in Tasks :
          (pc[t] = "wait" /\ pc[u] # "idle" /\ call[u].id > call[t].id)
          => log[u].sends[1].sock # RecvSocket(call[t].op)

\* C6 amended: that holds as long as the callers never start an exchange on
\* a channel while another exchange on that channel has not returned.
C6_OneInFlightIfSerialized == ~overlapped => C6_OneInFlight

C6_Witness ==
    /\ ~overlapped
    /\ \E t, u \in Tasks : /\ pc[t] = "wait" /\ call[t].op = "send_command"
                           /\ pc[u] = "wait" /\ call[u].op = "send_http_query"

(* ---------------- C7 ---------------- *)
\* C7: every call performs exactly one send and at most one receive; a
\* fire-and-forget call and a call whose transmit failed perform no receive.
C7_NoRetry ==
    \A t \in Tasks :
        pc[t] # "idle" =>
            /\ Len(log[t].sends) = 1
            /\ Len(log[t].recvs) <= 1
            /\ pc[t] = "wait" => log[t].recvs = <<>>
            /\ (Blind(t) \/ SendReport(t) # "sent") => log[t].recvs = <<>>
            /\ (Done(t) /\ Awaiting(t) /\ SendReport(t) = "sent")
               => Len(log[t].recvs) = 1

C7_Witness ==
    \E t, u \in Tasks :
        /\ Done(t) /\ result[t] = Err("NoResponse") /\ Len(log[t].recvs) = 1
        /\ Done(u) /\ result[u] = Err("TransmitFailed") /\ Awaiting(u)

(* ---------------- C8 ---------------- *)
\* C8 as claimed: when the callers serialize, the datagram an awaiting call
\* returns is the device's reply to the request of that same call.
C8_ReplyMatchesRequest ==
    \A t \in Tasks :
        (~overlapped /\ Done(t) /\ Awaiting(t) /\ Got(t) /\ result[t].status = "Ok")
        => Datagram(t).req = call[t].id

\* C8 amended: that holds when the channel was quiet as the call
\* transmitted (nothing unread in the socket, no earlier request that the
\* device may still answer).
C8_ReplyMatchesIfQuiet ==
    \A t \in Tasks :
        (~overlapped /\ call[t].quiet /\ Done(t) /\ Awaiting(t) /\ Got(t)
                     /\ result[t].status = "Ok")
        => /\ Datagram(t).req = call[t].id
           /\ Datagram(t).chan = ChannelOf(call[t].op)

C8_Witness ==
    \E t \in Tasks :
        /\ ~overlapped /\ call[t].quiet /\ call[t].id = MaxCalls
        /\ Done(t) /\ call[t].op = "send_command" /\ Got(t)
        /\ result[t].status = "Ok"

(* ---------------- C9 ---------------- *)
\* C9: whatever the outcomes, the session keeps the two sockets it was
\* connected with, open and connected to the same endpoints, and an idle
\* caller can issue a further exchange.
C9_SessionUnchanged ==
    /\ session = Connected
    /\ \A t \in Tasks :
          (pc[t] = "idle" /\ calls < MaxCalls)
          => ENABLED send_command(t) /\ ENABLED send_http_query(t)

C9_Witness ==
    \E t, u \in Tasks :
        /\ Done(t) /\ result[t] = Err("NoResponse")
        /\ Done(u) /\ result[u] = Err("TransportError") /\ Got(u) = FALSE
        /\ log[u].recvs # <<>>

(* ---------------- C10 ---------------- *)
\* C10, state half: every send and receive of a call is on the socket of
\* its own channel, and a datagram it receives arrived on that channel.
C10_OwnChannelOnly ==
    \A t \in Tasks :
        pc[t] # "idle" =>
            /\ \A i \in 1..Len(log[t].sends) :
                  log[t].sends[i].sock = ChannelOf(call[t].op)
            /\ \A i \in 1..Len(log[t].recvs) :
                  /\ log[t].recvs[i].sock = ChannelOf(call[t].op)
                  /\ log[t].recvs[i].kind = "datagram"
                     => log[t].recvs[i].dgram.chan = ChannelOf(call[t].op)

\* a step of a call leaves the other channel's socket and wire as they were
C10_StepKeepsOtherChannel ==
    \A t \in Tasks :
        (pc'[t] # pc[t]) =>
            LET o == IF pc[t] = "idle" THEN call'[t].op ELSE call[t].op
            IN \A c \in Channels \ {ChannelOf(o)} :
                  /\ rxq'[c] = rxq[c]
                  /\ wire'[c] = wire[c]
                  /\ sockErr'[c] = sockErr[c]

\* C10: the two channels are independent: a command exchange touches only
\* the command channel and a query exchange only the text-query channel.
C10_ChannelsIndependent ==
    /\ []C10_OwnChannelOnly
    /\ [][C10_StepKeepsOtherChannel]_vars

C10_Witness ==
    \E t, u \in Tasks :
        /\ Done(t) /\ call[t].op = "send_command" /\ Got(t)
        /\ Done(u) /\ call[u].op = "send_http_query" /\ Got(u)
        /\ result[t].status = "Ok" /\ result[u].status = "Ok"

(* ---------------- C11 ---------------- *)
\* C11, state half: a call waits or has received only if its own transmit
\* succeeded; an awaiting call whose transmit failed has returned the
\* transmit's error without a receive and without starting the wait.
C11_ReceiveAfterSend ==
    \A t \in Tasks :
        pc[t] # "idle" =>
            /\ (pc[t] = "wait" \/ log[t].recvs # <<>>)
               => (Awaiting(t) /\ SendReport(t) = "sent")
            /\ (Awaiting(t) /\ SendReport(t) # "sent")
               => /\ Done(t)
                  /\ result[t].status = "Err"
                  /\ SendReport(t) = "zero" => result[t].err = "TransmitFailed"
                  /\ SendReport(t) = "error" => result[t].err = "TransportError"
                  /\ log[t].recvs = <<>>
                  /\ elapsed[t] = 0

\* C11, step half: a failed transmit returns in the same step and takes no
\* datagram; a waiting call only goes on waiting or returns; a call that has
\* returned does nothing more until the caller takes its result.
C11_ExchangeStep ==
    \A t \in Tasks :
        /\ (pc[t] = "idle" /\ pc'[t] # "idle" /\ log'[t].sends[1].report # "sent")
           => (pc'[t] = "done" /\ rxq' = rxq /\ sockErr' = sockErr)
        /\ (pc[t] = "idle" /\ pc'[t] # "idle") => log'[t].recvs = <<>>
        /\ pc[t] = "wait" => pc'[t] \in {"wait", "done"}
        /\ pc[t] = "done"
           => \/ (pc'[t] = "done" /\ log'[t] = log[t] /\ result'[t] = result[t])
              \/ (pc'[t] = "idle" /\ rxq' = rxq /\ wire' = wire)

\* C11: every awaiting exchange goes Idle -> Sent -> (Received | TimedOut);
\* the receive comes only after the transmit of the same call succeeded.
C11_ExchangeOrder ==
    /\ []C11_ReceiveAfterSend
    /\ [][C11_ExchangeStep]_vars

C11_Witness ==
    \E t \in Tasks :
        /\ Done(t) /\ call[t].op = "send_command" /\ SendReport(t) = "zero"
        /\ result[t] = Err("TransmitFailed")
        /\ log[t].recvs = <<>>
        /\ rxq["command"] # <<>>

(* ---------------- C12 ---------------- *)
\* C12: get_attitude_information transmits the attitude-telemetry command,
\* once, on the command channel, and returns telemetry only if the exchange
\* succeeded; when the exchange fails (TransmitFailed, NoResponse,
\* EmptyResponse, transport error) it returns the error send_command
\* returns, and no telemetry.
C12_AttitudeExchange ==
    \A t \in Tasks :
        (pc[t] # "idle" /\ call[t].op = "get_attitude_information") =>
            /\ call[t].arg = AttitudeInformation
            /\ Len(log[t].sends) = 1
            /\ log[t].sends[1].sock = "command"
            /\ log[t].sends[1].bytes = to_bytes(AttitudeInformation)
            /\ Done(t) =>
                  /\ result[t].status = "Ok"
                     => (SendReport(t) = "sent" /\ Got(t) /\ Datagram(t).bytes # <<>>)
                  /\ SendReport(t) = "zero" => result[t] = Err("TransmitFailed")
                  /\ SendReport(t) = "error" => result[t] = Err("TransportError")
                  /\ SendReport(t) = "sent" =>
                        /\ log[t].recvs[1].sock = "command"
                        /\ log[t].recvs[1].kind = "elapsed"
                           => result[t] = Err("NoResponse")
                        /\ log[t].recvs[1].kind = "error"
                           => result[t] = Err("TransportError")
                        /\ (Got(t) /\ Received("send_command", Datagram(t).bytes).status = "Err")
                           => result[t] = Received("send_command", Datagram(t).bytes)

C12_Witness ==
    \E t, u \in Tasks :
        /\ Done(t) /\ call[t].op = "get_attitude_information"
        /\ Got(t) /\ result[t] = Err("EmptyResponse")
        /\ Done(u) /\ call[u].op = "get_attitude_information"
        /\ Got(u) /\ result[u].status = "Ok"

(* ---------------- C13 ---------------- *)
\* C13: on success send_http_query returns exactly the bytes of the reply
\* datagram as text, none added and none dropped.
C13_ExactReplyText ==
    \A t \in Tasks :
        (Done(t) /\ call[t].op = "send_http_query" /\ result[t].status = "Ok")
        => (Got(t) /\ result[t].value = Datagram(t).bytes)

(* ---------------- C14 ---------------- *)
\* C14: send_http_query fails with TextDecodeError exactly when the
\* non-empty reply is not valid UTF-8; a valid reply never gives
\* TextDecodeError and an invalid one is never returned as a string.
C14_TextDecodeErrorIffInvalid ==
    \A t \in Tasks :
        (Done(t) /\ call[t].op = "send_http_query" /\ Got(t)
                 /\ Datagram(t).bytes # <<>>)
        => /\ result[t] = Err("TextDecodeError") <=> ~Utf8Valid(Datagram(t).bytes)
           /\ result[t].status = "Ok" => Utf8Valid(Datagram(t).bytes)

(* ---------------- C15 ---------------- *)
\* the bytes handed to the socket by the one send of task t's call
Sent(t) == log[t].sends[1].bytes

\* C15: every call transmits a single datagram; on the text-query channel
\* it is exactly the bytes of the query's literal request string, with no
\* header, length field or checksum added, and on the command channel it is
\* exactly the command's encoded frame.
C15_DatagramAsIs ==
    \A t \in Tasks : pc[t] # "idle" =>
        /\ Len(log[t].sends) = 1
        /\ log[t].sends[1].sock = ChannelOf(call[t].op)
        /\ call[t].op \in HttpOps =>
              /\ call[t].arg \in Queries
              /\ Sent(t) = to_string(call[t].arg)
              /\ call[t].arg = GetMediaCountQuery
                    => Sent(t) = <<47, 99, 111, 117, 110, 116>>
              /\ call[t].arg = GetDirectoriesQuery
                    => Sent(t) = <<47, 100, 105, 114, 115>>
              /\ ~ValidFrame(Sent(t))
        /\ call[t].op \in CommandOps =>
              /\ call[t].arg \in CommandCatalogue
              /\ Sent(t) = to_bytes(call[t].arg)

\* a blind query and a command have each handed their datagram to the socket
C15_Witness ==
    \E t, u \in Tasks :
        /\ t # u /\ Done(t) /\ Done(u)
        /\ call[t].op = "send_http_query_blind" /\ SendReport(t) = "sent"
        /\ call[t].arg = GetMediaCountQuery
        /\ call[u].op = "send_command" /\ SendReport(u) = "sent"
        /\ call[u].arg = AutoCenter
====
